---- MODULE Spec2Model ----
(***************************************************************************)
(* Worktree manager: repository discovery (lib/git: isGitRepo,             *)
(* getMainRepoPath, collectReposRecursive, getReposForRoot,                *)
(* getWorktreesForRepo, getAllWorktrees) and the cancellable               *)
(* create-from-base protocol (runGitWorktreeAdd, setBranchUpstream,        *)
(* createWorktreeFromBase), the roots preference (expandRoots), and the    *)
(* two commands that use them: the Create Worktree form (handleSubmit,     *)
(* Cancel) and the Remove Worktree action of the search list.              *)
(*                                                                         *)
(* A path is a sequence of segments; an absolute path starts with the      *)
(* segment "/".  A text (subprocess output, a typed name) is a sequence of *)
(* atoms: a word, or one whitespace or separator character.                *)
(***************************************************************************)
EXTENDS Naturals, Sequences, FiniteSets, TLC

VARIABLES
  fs,          \* the directory tree: path -> [t: kind of its .git entry, main: linked-to main repository]
  relLinks,    \* TRUE when git wrote the gitdir pointers of linked worktrees as relative paths
  revOrder,    \* TRUE when readdir returns the entries in reverse order
  roots,       \* the configured roots handed to the scan / to getAllWorktrees
  spc,         \* getReposForRoot harness: "ready" | "done"
  scanned,     \* result of getReposForRoot(roots[1]) once spc = "done"
  apc,         \* getAllWorktrees: "idle" | "root" | "repo" | "done"
  rootIdx,     \* index of the root being processed
  repos,       \* repos of the current root (getReposForRoot result)
  repoIdx,     \* index of the repository being listed
  items,       \* the WorktreeItem list being built, then the returned (sorted) list
  seenPaths,   \* the Set of absolute paths already emitted
  mtimes,      \* filesystem: absolute path -> mtimeMs, or NoTime where statSync throws
  listedOk,    \* history: absolute paths of every line of every listing that succeeded
  firstAbs,    \* history: item path -> absolute-resolved path of the first line of the listing it came from
  raised,      \* history: TRUE when getAllWorktrees let an exception escape
  failedOnce,  \* history: TRUE once a listing subprocess has failed
  cpc,         \* createWorktreeFromBase: "idle", the subprocess it awaits, or "done"
  signal,      \* opts.signal: "none" (not given) | "armed" | "aborted"
  repoOk,      \* fs.existsSync(repoPath) && isGitRepo(repoPath)
  baseBranch,  \* argument baseBranch (a text)
  newBranchName, \* argument newBranchName (a text)
  addWithB,    \* TRUE when the running worktree-add was started with -b <branch>
  cmds,        \* history: the subprocesses started, in order
  killed,      \* history: the subprocesses sent SIGTERM
  result,      \* the value the call resolved with ([set |-> FALSE, ...] before)
  upLog,       \* what setBranchUpstream passed to onLog: "none" | "set" | "note"
  localExists, \* history: what hasLocalBranch answered: "unknown" | "yes" | "no"
  abortedIn,   \* history: where the call stood when the signal was aborted ("never", "before")
  addOk,       \* history: TRUE once worktree-add has closed with exit code 0
  dups,        \* history: "repo" / "root" once a path was skipped that an earlier listing of
               \* another repository / of the same repository under an earlier root had emitted
  sortPc,      \* items.sort harness: "idle" | "ready" | "done"
  sortInput,   \* the items array before the final sort of getAllWorktrees
  sortOutput,  \* the array getAllWorktrees returns
  epc,         \* expandRoots harness: "idle" | "ready" | "done"
  rootsStr,    \* argument rootsStr (a text)
  expanded,    \* the list expandRoots returned
  isSubmitting,       \* Create Worktree form: the React state isSubmitting
  createSuccess,      \* Create Worktree form: the React state createSuccess
  abortControllerRef, \* abortControllerRef.current: 0 for null, else the handleSubmit invocation
                      \* whose AbortController it holds
  panel,       \* the action the rendered ActionPanel offers: "submit" | "cancel"
  hpc,         \* position of each handleSubmit invocation: "none" | "toast" | "creating" |
               \* "delay" | "hud" | "done"
  abortedCtl,  \* the AbortControllers (by invocation) whose signal is aborted
  removeCalls, \* history: the arguments [repoRoot, path] of every removeWorktree call
  callStack,   \* step-by-step scan: the active calls of collectReposRecursive, innermost last:
               \* [dirPath, depth, at: "enter" | "loop", entries: the readdir entries still to visit]
  walkSt       \* step-by-step scan: [results, seen] (the results array and seenMainPaths)

scanVars == <<spc, scanned>>
aggVars == <<apc, rootIdx, repos, repoIdx, items, seenPaths, mtimes, listedOk, firstAbs, raised,
            failedOnce, dups>>
fsVars == <<fs, relLinks, revOrder, roots>>
createVars == <<cpc, signal, repoOk, baseBranch, newBranchName, addWithB, cmds, killed, result,
               upLog, localExists, abortedIn, addOk>>
sortVars == <<sortPc, sortInput, sortOutput>>
expandVars == <<epc, rootsStr, expanded>>
formVars == <<isSubmitting, createSuccess, abortControllerRef, panel, hpc, abortedCtl>>
removeVars == <<removeCalls>>
walkVars == <<callStack, walkSt>>
otherVars == <<sortVars, expandVars, formVars, removeVars, walkVars>>

(***************************************************************************)
(* Bounds of the model.                                                    *)
(***************************************************************************)
MaxRoots == 2
MaxBlocks == 2
MaxItems == 4
MinChain == 12
MaxChain == 17
MaxText == 5
MaxSubmits == 3

(***************************************************************************)
(* path module: isAbsolute, resolve (normalising "." and ".."), dirname,   *)
(* join, basename.                                                         *)
(***************************************************************************)
IsAbsolute(p) == Len(p) > 0 /\ p[1] = "/"

RECURSIVE NormFrom(_, _)
NormFrom(acc, rest) ==
  IF \A i \in 1..Len(rest) : rest[i] \notin {"..", ".", "/"} THEN acc \o rest
  ELSE LET h == Head(rest) IN
       IF h = ".." THEN NormFrom(IF Len(acc) > 1 THEN SubSeq(acc, 1, Len(acc) - 1) ELSE acc, Tail(rest))
       ELSE IF h = "." \/ h = "/" THEN NormFrom(acc, Tail(rest))
       ELSE NormFrom(Append(acc, h), Tail(rest))

Resolve(base, p) ==
  IF IsAbsolute(p) THEN NormFrom(<<"/">>, Tail(p))
  ELSE NormFrom(<<"/">>, Tail(base) \o p)

Join(p, name) == Resolve(p, <<name>>)

Dirname(p) == IF Len(p) <= 1 THEN p ELSE SubSeq(p, 1, Len(p) - 1)

Basename(p) == IF Len(p) <= 1 THEN "" ELSE p[Len(p)]

(***************************************************************************)
(* The directory universe.                                                 *)
(***************************************************************************)
DirR == <<"/", "r">>
DirA == <<"/", "r", "a">>
DirN == <<"/", "r", "a", "n">>
DirB == <<"/", "r", "b">>
DirO == <<"/", "o">>
DirX == <<"/", "x">>

Dirs == {DirR, DirA, DirN, DirB, DirO}
DirOrder == <<DirA, DirB, DirN, DirO, DirR>>

Reverse(s) == [i \in 1..Len(s) |-> s[Len(s) + 1 - i]]

\* A deep tree under DirR: two chains of directories /r/d/d/... and /r/e/e/...
Branch(x, k) == DirR \o [i \in 1..k |-> x]
BranchOrder ==
  [i \in 1..(2 * MaxChain) |-> IF i <= MaxChain THEN Branch("d", i) ELSE Branch("e", i - MaxChain)]

KindOf(p) == IF p \in DOMAIN fs THEN fs[p].t ELSE "absent"

\* fs.existsSync(p) && fs.statSync(p).isDirectory()
IsDirectory(p) == KindOf(p) # "absent"

\* The path written after "gitdir:" in the .git file of linked worktree d:
\* the administrative directory <main>/.git/worktrees/<name> (for a pointer
\* without commondir: <main>/.git/modules/<name>), absolute or relative to d.
RECURSIVE Ups(_)
Ups(n) == IF n = 0 THEN <<>> ELSE <<"..">> \o Ups(n - 1)

GitdirText(d) ==
  LET sub == IF fs[d].t = "linked" THEN "worktrees" ELSE "modules"
      admin == fs[d].main \o <<".git", sub, Basename(d)>>
  IN IF relLinks THEN Ups(Len(d) - 1) \o Tail(admin) ELSE admin

\* The content of <gitdir>/commondir, as git writes it.
CommondirText == <<"..", "..">>
(***************************************************************************)
(* Filesystem probe.                                                       *)
(***************************************************************************)
NoPath == <<>>

\* .git is a directory ("main"), a file starting with "gitdir:" ("linked",
\* "nolink"), a file with other content ("junk"), or missing.
isGitRepo(dirPath) == KindOf(dirPath) \in {"main", "linked", "nolink"}

GitEntryIsFile(dirPath) == KindOf(dirPath) \in {"linked", "nolink", "junk"}

getMainRepoPath(worktreePath) ==
  IF ~GitEntryIsFile(worktreePath) THEN NoPath
  ELSE IF KindOf(worktreePath) = "junk" THEN NoPath
  ELSE LET raw == GitdirText(worktreePath)
           gitDir == IF IsAbsolute(raw) THEN raw ELSE Resolve(worktreePath, raw)
           commondirPath == Join(gitDir, "commondir")
       IN IF KindOf(worktreePath) = "linked"
          THEN LET common == CommondirText
                   mainGitDir == IF IsAbsolute(common) THEN common
                                 ELSE Resolve(Dirname(commondirPath), common)
               IN Dirname(mainGitDir)
          ELSE Dirname(gitDir)

(***************************************************************************)
(* Repository scanner.                                                     *)
(***************************************************************************)
MAX_REPO_SCAN_DEPTH == 15

\* readdirSync(dirPath, {withFileTypes: true}) filtered to the directories
\* not named ".git", in the order the filesystem returns them.
ReaddirOrder == IF Branch("d", 1) \in DOMAIN fs THEN BranchOrder ELSE DirOrder

DirEntries(dirPath) ==
  SelectSeq(IF revOrder THEN Reverse(ReaddirOrder) ELSE ReaddirOrder,
            LAMBDA c : c \in DOMAIN fs /\ Len(c) = Len(dirPath) + 1
                       /\ SubSeq(c, 1, Len(dirPath)) = dirPath)

\* seenMainPaths.has / add / results.push
Record_NoDedup(st, p) ==
  [results |-> Append(st.results, p), seen |-> st.seen \cup {p}]

Record(st, p) ==
  IF p \in st.seen THEN st
  ELSE [results |-> Append(st.results, p), seen |-> st.seen \cup {p}]

\* if (depth > MAX_REPO_SCAN_DEPTH) return;
DepthExceeded_AtLimit(depth) == depth >= MAX_REPO_SCAN_DEPTH

DepthExceeded(depth) == depth > MAX_REPO_SCAN_DEPTH

RECURSIVE collectReposRecursive(_, _, _)
RECURSIVE WalkEntries(_, _, _)

\* the `return` that ends the isGitRepo branch: a repository is not scanned internally
StopAtRepo_Descend(dirPath, st, depth) ==
  IF KindOf(dirPath) = "denied" THEN st ELSE WalkEntries(DirEntries(dirPath), st, depth)

StopAtRepo(dirPath, st, depth) == st

collectReposRecursive(dirPath, st, depth) ==
  IF DepthExceeded(depth) THEN st
  ELSE IF ~IsDirectory(dirPath) THEN st
  ELSE IF isGitRepo(dirPath)
       THEN IF GitEntryIsFile(dirPath)
            THEN LET mainPath == getMainRepoPath(dirPath)
                 IN StopAtRepo(dirPath, IF mainPath # NoPath THEN Record(st, mainPath) ELSE st, depth)
            ELSE StopAtRepo(dirPath, Record(st, Resolve(dirPath, <<>>)), depth)
  ELSE IF KindOf(dirPath) = "denied" THEN st   \* readdirSync throws, caught
  ELSE WalkEntries(DirEntries(dirPath), st, depth)

WalkEntries(entries, st, depth) ==
  IF entries = <<>> THEN st
  ELSE WalkEntries(Tail(entries),
                   collectReposRecursive(Head(entries), st, depth + 1), depth)

getReposForRoot(rootPath) ==
  IF ~IsDirectory(rootPath) THEN <<>>
  ELSE collectReposRecursive(Resolve(rootPath, <<>>),
                             [results |-> <<>>, seen |-> {}], 0).results
(***************************************************************************)
(* Worktree lister: `git worktree list --porcelain` and its parser.        *)
(* A stdout line is [tag, val]: "worktree <path>", "branch <ref>", "bare", *)
(* or the empty line ("blank").                                            *)
(***************************************************************************)
NoBranch == <<>>
RefsHeads == "refs/heads/"

WLine(p) == [tag |-> "worktree", val |-> p]
BLine(ref) == [tag |-> "branch", val |-> ref]
BlankLine == [tag |-> "blank", val |-> <<>>]

\* .replace(/^refs\/heads\//, "")
StripRefsHeads(ref) == IF Len(ref) > 0 /\ ref[1] = RefsHeads THEN Tail(ref) ELSE ref

NoCurrent == [path |-> NoPath, branch |-> NoBranch, bare |-> FALSE]

RECURSIVE ParseLines(_, _, _)
ParseLines(rest, lines, current) ==
  IF rest = <<>>
  THEN IF current.path # NoPath THEN Append(lines, current) ELSE lines
  ELSE LET line == Head(rest) IN
       IF line.tag = "worktree"
       THEN ParseLines(Tail(rest),
                       IF current.path # NoPath THEN Append(lines, current) ELSE lines,
                       [path |-> line.val, branch |-> NoBranch, bare |-> FALSE])
       ELSE IF line.tag = "branch"
       THEN ParseLines(Tail(rest), lines, [current EXCEPT !.branch = StripRefsHeads(line.val)])
       ELSE IF line.tag = "bare"
       THEN ParseLines(Tail(rest), lines, [current EXCEPT !.bare = TRUE])
       ELSE IF line.tag = "blank" /\ current.path # NoPath
       THEN ParseLines(Tail(rest), Append(lines, current), NoCurrent)
       ELSE ParseLines(Tail(rest), lines, current)

\* catch (err) { logGitError(...); return []; }
ListingFailed_Raise == [worktrees |-> <<>>, ok |-> FALSE, raised |-> TRUE]

ListingFailed == [worktrees |-> <<>>, ok |-> FALSE, raised |-> FALSE]

\* out = [fail, stdout]: the outcome of the git subprocess.
getWorktreesForRepo(repoPath, out) ==
  IF ~IsDirectory(repoPath) \/ ~isGitRepo(repoPath)
  THEN [worktrees |-> <<>>, ok |-> FALSE, raised |-> FALSE]
  ELSE IF out.fail THEN ListingFailed
  ELSE [worktrees |-> ParseLines(out.stdout, <<>>, NoCurrent), ok |-> TRUE, raised |-> FALSE]

(***************************************************************************)
(* Aggregator.                                                             *)
(***************************************************************************)
NoTime == [has |-> FALSE, ms |-> 0]

\* fs.statSync(absPath).mtimeMs, absent when statSync throws
StatMtime(p) == IF p \in DOMAIN fs THEN [has |-> TRUE, ms |-> mtimes[p]] ELSE NoTime

Detached == <<"(detached)">>

AbsPathOf(repoPath, wt) ==
  IF IsAbsolute(wt.path) THEN wt.path ELSE Resolve(repoPath, wt.path)

\* const mainPath = worktrees[0]?.path || repo.path
MainPathOf(repoPath, worktrees) ==
  IF Len(worktrees) > 0 /\ worktrees[1].path # NoPath THEN worktrees[1].path ELSE repoPath

SeenHas_Never(seen, absPath) == FALSE

SeenHas(seen, absPath) == absPath \in seen

\* the for loop over the worktrees of one repository; acc = [items, seen]
RECURSIVE AddWorktrees(_, _, _, _)
AddWorktrees(repoPath, worktrees, i, acc) ==
  IF i > Len(worktrees) THEN acc
  ELSE LET wt == worktrees[i]
           absPath == AbsPathOf(repoPath, wt)
       IN IF SeenHas(acc.seen, absPath) THEN AddWorktrees(repoPath, worktrees, i + 1, acc)
          ELSE AddWorktrees(repoPath, worktrees, i + 1,
                 [items |-> Append(acc.items,
                              [path |-> absPath,
                               branch |-> IF wt.branch # NoBranch THEN wt.branch ELSE Detached,
                               repoName |-> Basename(repoPath),
                               isMain |-> (absPath = MainPathOf(repoPath, worktrees)),
                               repoRoot |-> repoPath,
                               lastModifiedMs |-> StatMtime(absPath)]),
                  seen |-> acc.seen \cup {absPath}])

\* a.path.localeCompare(b.path) < 0, on paths over the directory alphabet
Alphabet == <<"/", ".", "..", ".git", "a", "b", "c", "d", "modules", "n", "o", "r", "worktrees", "x">>
SegRank(sg) == CHOOSE i \in 1..Len(Alphabet) : Alphabet[i] = sg

RECURSIVE PathLess(_, _)
PathLess(p, q) ==
  IF q = <<>> THEN FALSE
  ELSE IF p = <<>> THEN TRUE
  ELSE IF Head(p) = Head(q) THEN PathLess(Tail(p), Tail(q))
  ELSE SegRank(Head(p)) < SegRank(Head(q))

\* lastModifiedMs ?? 0
MsOrZero(it) == IF it.lastModifiedMs.has THEN it.lastModifiedMs.ms ELSE 0

\* the comparator of items.sort returns a negative number
SortsBefore_PathOnly(a, b) == PathLess(a.path, b.path)

SortsBefore(a, b) ==
  IF MsOrZero(b) # MsOrZero(a) THEN MsOrZero(b) < MsOrZero(a)
  ELSE PathLess(a.path, b.path)

RECURSIVE InsertSorted(_, _)
InsertSorted(sorted, it) ==
  IF sorted = <<>> THEN <<it>>
  ELSE IF SortsBefore(it, Head(sorted)) THEN <<it>> \o sorted
  ELSE <<Head(sorted)>> \o InsertSorted(Tail(sorted), it)

RECURSIVE SortItems(_)
SortItems(its) ==
  IF its = <<>> THEN <<>>
  ELSE InsertSorted(SortItems(SubSeq(its, 1, Len(its) - 1)), its[Len(its)])
(***************************************************************************)
(* Inputs: filesystem layouts, configured roots, subprocess outcomes.      *)
(***************************************************************************)
K(t, m) == [t |-> t, main |-> m]

MkFs(kr, ka, kn, kb) ==
  (DirR :> kr) @@ (DirA :> ka) @@ (DirN :> kn) @@ (DirB :> kb) @@ (DirO :> K("main", NoPath))

\* a gitdir pointer names a main repository
WellFormed(f) ==
  \A d \in DOMAIN f : f[d].t \in {"linked", "nolink"} => f[f[d].main].t = "main"

ScanKindsR == {K("plain", NoPath), K("denied", NoPath), K("main", NoPath)}
ScanKindsA == {K("plain", NoPath), K("denied", NoPath), K("junk", NoPath), K("main", NoPath),
               K("linked", DirB), K("linked", DirO), K("linked", DirR), K("nolink", DirO)}
ScanKindsN == {K("plain", NoPath), K("main", NoPath),
               K("linked", DirA), K("linked", DirB), K("linked", DirO)}
ScanKindsB == {K("plain", NoPath), K("main", NoPath),
               K("linked", DirA), K("linked", DirO), K("linked", DirN)}

\* The layouts getAllWorktrees is run on: two repositories; one repository
\* with a linked worktree; a directory whose traversal fails beside a
\* repository; a repository one directory level further down.
AggLayouts ==
  {MkFs(K("plain", NoPath), K("main", NoPath), K("plain", NoPath), K("main", NoPath)),
   MkFs(K("plain", NoPath), K("main", NoPath), K("plain", NoPath), K("linked", DirA)),
   MkFs(K("plain", NoPath), K("denied", NoPath), K("main", NoPath), K("main", NoPath)),
   MkFs(K("plain", NoPath), K("plain", NoPath), K("main", NoPath), K("main", NoPath))}

\* Roots a scan is started on; DirX does not exist.
ScanRootCands == {DirR, DirA, DirX}

\* Roots of the lists given to getAllWorktrees.
RootCands == {DirR, DirA}

BoundedSeqs(S, n) == UNION {[1..k -> S] : k \in 0..n}

MtimeMaps == {[d \in Dirs |-> IF d = DirA THEN 100 ELSE 300]}

\* One record of the porcelain output: its path (absolute, or relative to the
\* repository) and its branch ref (none: detached HEAD).
BlockChoices ==
  {[path |-> DirA, branch |-> <<RefsHeads, "main">>],
   [path |-> <<".">>, branch |-> <<RefsHeads, "feat">>]}

\* A listing whose second worktree's folder is gone (detached HEAD).
StaleListing ==
  <<[path |-> <<".">>, branch |-> <<RefsHeads, "main">>], [path |-> DirX, branch |-> NoBranch]>>

BlockLines(b) ==
  <<WLine(b.path), [tag |-> "HEAD", val |-> <<>>]>>
  \o (IF b.branch # NoBranch THEN <<BLine(b.branch)>> ELSE <<[tag |-> "detached", val |-> <<>>]>>)
  \o <<BlankLine>>

RECURSIVE Flatten(_)
Flatten(blocks) == IF blocks = <<>> THEN <<>> ELSE BlockLines(Head(blocks)) \o Flatten(Tail(blocks))

\* stdout.split("\n") of the blocks, each ended by an empty line
ListingOutcomes ==
  {[fail |-> TRUE, stdout |-> <<>>]}
  \cup {[fail |-> FALSE, stdout |-> Flatten(bs) \o <<BlankLine>>] :
          bs \in BoundedSeqs(BlockChoices, MaxBlocks) \cup {StaleListing}}

(***************************************************************************)
(* getReposForRoot on one root (specification SpecScan).                   *)
(***************************************************************************)
AggIdle ==
  /\ apc = "idle" /\ rootIdx = 0 /\ repos = <<>> /\ repoIdx = 0 /\ items = <<>>
  /\ seenPaths = {} /\ mtimes = [d \in Dirs |-> 300] /\ listedOk = {} /\ firstAbs = {}
  /\ raised = FALSE /\ failedOnce = FALSE /\ dups = {}

ScanIdle == spc = "idle" /\ scanned = <<>>

SortIdle == sortPc = "idle" /\ sortInput = <<>> /\ sortOutput = <<>>

ExpandIdle == epc = "idle" /\ rootsStr = <<>> /\ expanded = <<>>

FormIdle ==
  /\ isSubmitting = FALSE /\ createSuccess = FALSE /\ abortControllerRef = 0 /\ panel = "submit"
  /\ hpc = <<>> /\ abortedCtl = {}

RemoveIdle == removeCalls = {}

NoWalk == [results |-> <<>>, seen |-> {}]

WalkIdle == callStack = <<>> /\ walkSt = NoWalk

OtherIdle == SortIdle /\ ExpandIdle /\ FormIdle /\ RemoveIdle /\ WalkIdle

NoResult == [set |-> FALSE, success |-> FALSE, error |-> <<>>]

CreateIdle ==
  /\ cpc = "idle" /\ signal = "none" /\ repoOk = TRUE /\ baseBranch = <<>> /\ newBranchName = <<>>
  /\ addWithB = FALSE /\ cmds = <<>> /\ killed = {} /\ result = NoResult /\ upLog = "none"
  /\ localExists = "unknown" /\ abortedIn = "never" /\ addOk = FALSE

InitScan ==
  /\ \E kr \in ScanKindsR, ka \in ScanKindsA, kn \in ScanKindsN, kb \in ScanKindsB :
       /\ WellFormed(MkFs(kr, ka, kn, kb))
       /\ fs = MkFs(kr, ka, kn, kb)
  /\ relLinks \in BOOLEAN
  /\ revOrder \in BOOLEAN
  /\ \E r \in ScanRootCands : roots = <<r>>
  /\ spc = "ready" /\ scanned = <<>>
  /\ AggIdle
  /\ CreateIdle
  /\ OtherIdle

ScanRoot ==
  /\ spc = "ready"
  /\ scanned' = getReposForRoot(roots[1])
  /\ spc' = "done"
  /\ UNCHANGED <<fsVars, otherVars, aggVars, createVars>>

NextScan == ScanRoot

(***************************************************************************)
(* getAllWorktrees (specification Spec).                                   *)
(***************************************************************************)
Init ==
  /\ fs \in AggLayouts
  /\ relLinks = FALSE
  /\ revOrder = FALSE
  /\ roots \in (BoundedSeqs(RootCands, MaxRoots) \ {<<>>}) \cup {<<DirX, DirR>>}
  /\ mtimes \in MtimeMaps
  /\ apc = "root" /\ rootIdx = 1 /\ repos = <<>> /\ repoIdx = 0
  /\ items = <<>> /\ seenPaths = {} /\ listedOk = {} /\ firstAbs = {} /\ raised = FALSE
  /\ failedOnce = FALSE /\ dups = {}
  /\ ScanIdle
  /\ CreateIdle
  /\ OtherIdle

\* for (const root of roots) { const repos = getReposForRoot(root);
AggScanRoot ==
  /\ apc = "root" /\ rootIdx <= Len(roots)
  /\ repos' = getReposForRoot(roots[rootIdx])
  /\ repoIdx' = 1
  /\ apc' = "repo"
  /\ UNCHANGED <<fsVars, otherVars, scanVars, createVars, rootIdx, items, seenPaths, mtimes, listedOk, firstAbs, raised,
                 failedOnce, dups>>

\* const worktrees = await getWorktreesForRepo(repo.path); and the loop over them
AggListRepo ==
  /\ apc = "repo" /\ repoIdx <= Len(repos)
  /\ \E out \in ListingOutcomes :
       LET repoPath == repos[repoIdx]
           got == getWorktreesForRepo(repoPath, out)
           acc == AddWorktrees(repoPath, got.worktrees, 1, [items |-> items, seen |-> seenPaths])
           listed == {AbsPathOf(repoPath, got.worktrees[i]) : i \in 1..Len(got.worktrees)}
           first == IF got.worktrees = <<>> THEN NoPath ELSE AbsPathOf(repoPath, got.worktrees[1])
           again == {i \in 1..Len(items) : items[i].path \in listed}
       IN /\ failedOnce' = (failedOnce \/ (isGitRepo(repoPath) /\ out.fail))
          /\ IF got.raised
             THEN /\ raised' = TRUE /\ apc' = "done" /\ items' = <<>>
                  /\ UNCHANGED <<seenPaths, listedOk, firstAbs, repoIdx, dups>>
             ELSE /\ items' = acc.items
                  /\ seenPaths' = acc.seen
                  /\ listedOk' = listedOk \cup listed
                  /\ firstAbs' = firstAbs \cup {[path |-> acc.items[i].path, first |-> first] :
                                                  i \in (Len(items) + 1)..Len(acc.items)}
                  /\ dups' = dups \cup {IF items[i].repoRoot = repoPath THEN "root" ELSE "repo" : i \in again}
                  /\ repoIdx' = repoIdx + 1
                  /\ UNCHANGED <<apc, raised>>
  /\ UNCHANGED <<fsVars, otherVars, scanVars, createVars, rootIdx, repos, mtimes>>

\* the end of the inner for loop: on to the next root
AggNextRoot ==
  /\ apc = "repo" /\ repoIdx > Len(repos)
  /\ rootIdx' = rootIdx + 1
  /\ apc' = "root"
  /\ UNCHANGED <<fsVars, otherVars, scanVars, createVars, repos, repoIdx, items, seenPaths, mtimes, listedOk, firstAbs, raised,
                 failedOnce, dups>>

\* return items.sort(...)
AggReturn ==
  /\ apc = "root" /\ rootIdx > Len(roots)
  /\ items' = SortItems(items)
  /\ apc' = "done"
  /\ UNCHANGED <<fsVars, otherVars, scanVars, createVars, rootIdx, repos, repoIdx, seenPaths, mtimes, listedOk, firstAbs, raised,
                 failedOnce, dups>>

Next == AggScanRoot \/ AggListRepo \/ AggNextRoot \/ AggReturn

vars == <<fs, relLinks, revOrder, roots, spc, scanned, apc, rootIdx, repos, repoIdx,
          items, seenPaths, mtimes, listedOk, firstAbs, raised, failedOnce, dups,
          cpc, signal, repoOk, baseBranch, newBranchName, addWithB, cmds, killed, result,
          upLog, localExists, abortedIn, addOk, sortPc, sortInput, sortOutput,
          epc, rootsStr, expanded,
          isSubmitting, createSuccess, abortControllerRef, panel, hpc, abortedCtl, removeCalls,
          callStack, walkSt>>

Spec == Init /\ [][Next]_vars

SpecScan == InitScan /\ [][NextScan]_vars
(***************************************************************************)
(* Worktree mutator: createWorktreeFromBase, runGitWorktreeAdd,            *)
(* setBranchUpstream.  The awaited subprocesses are the positions of cpc;  *)
(* the event loop runs each continuation to its next await in one step.    *)
(***************************************************************************)
IsSpace(a) == a \in {" ", "\n"}

RECURSIVE TrimStart(_)
TrimStart(t) == IF t # <<>> /\ IsSpace(Head(t)) THEN TrimStart(Tail(t)) ELSE t

RECURSIVE TrimEnd(_)
TrimEnd(t) == IF t # <<>> /\ IsSpace(t[Len(t)]) THEN TrimEnd(SubSeq(t, 1, Len(t) - 1)) ELSE t

\* String.prototype.trim
Trim(t) == TrimEnd(TrimStart(t))

\* newBranchName.trim().replace(/[/\\]/g, "-")
SanitizeBranch(name) ==
  LET t == Trim(name) IN [i \in 1..Len(t) |-> IF t[i] \in {"/", "\\"} THEN "-" ELSE t[i]]

\* stderrChunks.join("")
RECURSIVE JoinChunks(_)
JoinChunks(chunks) == IF chunks = <<>> THEN <<>> ELSE Head(chunks) \o JoinChunks(Tail(chunks))

CANCELLED_ERROR == <<"Cancelled">>

Ok == [set |-> TRUE, success |-> TRUE, error |-> <<>>]
Fail(e) == [set |-> TRUE, success |-> FALSE, error |-> e]

Cmd(c, b, branch, start) == [cmd |-> c, b |-> b, branch |-> branch, start |-> start]

\* if (signal?.aborted)
IsAborted_Never(sig) == FALSE

IsAborted(sig) == sig = "aborted"

\* if (branchExists) { ... return runGitWorktreeAdd(absRepo, [absWorktree, branch], ...) }
TakesExistingBranchPath_Never(branchExists) == FALSE

TakesExistingBranchPath(branchExists) == branchExists

\* getUpstreamRef: the trimmed stdout unless empty or holding "@"; null on failure
getUpstreamRef(out) ==
  IF out.fail THEN <<>>
  ELSE LET ref == Trim(out.stdout)
       IN IF ref # <<>> /\ ~(\E i \in 1..Len(ref) : ref[i] = "@") THEN ref ELSE <<>>

\* the result resolved by the close handler of runGitWorktreeAdd
CloseResult(sig, code, chunks) ==
  IF IsAborted(sig) THEN Fail(CANCELLED_ERROR)
  ELSE IF code = 0 THEN Ok
  ELSE LET text == Trim(JoinChunks(chunks))
       IN Fail(IF text # <<>> THEN text ELSE <<"git worktree add exited with ", "1">>)

\* if (result.success) { await setBranchUpstream(...) } return result;
ResultAfterUpstream_Fatal(res, upstreamOk) ==
  IF upstreamOk THEN res ELSE Fail(<<"could not set upstream">>)

ResultAfterUpstream(res, upstreamOk) == res

BaseChoices == {<<>>, <<" ">>, <<" ", "main">>}
NameChoices == {<<>>, <<" ", "\n">>, <<"feat">>, <<" ", "/">>, <<" ", "a", "/", "b", "\\", "c">>}
UpstreamOutcomes ==
  {[fail |-> TRUE, stdout |-> <<>>],
   [fail |-> FALSE, stdout |-> <<"origin/main", "\n">>],
   [fail |-> FALSE, stdout |-> <<"main", "@", "{upstream}", "\n">>]}
AddOutputs ==
  {<<>>,
   << <<" ", "\n">> >>,
   << <<"Preparing worktree", "\n">>, <<"fatal:", " ", "already exists", "\n">> >>,
   << <<"Cancelled">>, <<"\n">> >>}

InitCreate ==
  /\ fs = MkFs(K("plain", NoPath), K("main", NoPath), K("plain", NoPath), K("main", NoPath))
  /\ relLinks = FALSE /\ revOrder = FALSE /\ roots = <<>>
  /\ ScanIdle /\ AggIdle /\ OtherIdle
  /\ cpc = "idle"
  /\ signal \in {"none", "armed", "aborted"}
  /\ repoOk \in BOOLEAN
  /\ baseBranch \in BaseChoices
  /\ newBranchName \in NameChoices
  /\ addWithB = FALSE /\ cmds = <<>> /\ killed = {} /\ result = NoResult /\ upLog = "none"
  /\ localExists = "unknown" /\ addOk = FALSE
  /\ abortedIn = IF signal = "aborted" THEN "before" ELSE "never"

Finish(res) == cpc' = "done" /\ result' = res

\* runGitWorktreeAdd up to its spawn: resolved at once when the signal is
\* aborted, else `git worktree add [-b <branch>] <path> [<startPoint>]` runs.
StartWorktreeAdd(withB, start) ==
  IF IsAborted(signal)
  THEN /\ Finish(Fail(CANCELLED_ERROR))
       /\ UNCHANGED <<cmds, addWithB>>
  ELSE /\ cpc' = "worktreeAdd"
       /\ cmds' = Append(cmds, Cmd("worktree add", withB, SanitizeBranch(newBranchName), start))
       /\ addWithB' = withB
       /\ UNCHANGED result

\* createWorktreeFromBase from its call to its first await
NoError == <<>>

\* the three early returns that precede the try block
PreconditionError_BaseFirst(ok, base, name) ==
  IF Trim(base) = <<>> THEN <<"Base branch is required">>
  ELSE IF ~ok THEN <<"Repository not found">>
  ELSE IF SanitizeBranch(name) = <<>> THEN <<"Worktree name is required">>
  ELSE NoError

PreconditionError(ok, base, name) ==
  IF ~ok THEN <<"Repository not found">>
  ELSE IF Trim(base) = <<>> THEN <<"Base branch is required">>
  ELSE IF SanitizeBranch(name) = <<>> THEN <<"Worktree name is required">>
  ELSE NoError

Call ==
  /\ cpc = "idle"
  /\ LET e == PreconditionError(repoOk, baseBranch, newBranchName)
     IN IF e # NoError THEN Finish(Fail(e)) /\ UNCHANGED cmds
        ELSE IF IsAborted(signal) THEN Finish(Fail(CANCELLED_ERROR)) /\ UNCHANGED cmds
        ELSE /\ cmds' = Append(cmds, Cmd("rev-parse --verify", FALSE, SanitizeBranch(newBranchName), <<>>))
             /\ cpc' = "hasLocalBranch"
             /\ UNCHANGED result
  /\ UNCHANGED <<fsVars, otherVars, scanVars, aggVars, signal, repoOk, baseBranch, newBranchName, addWithB,
                 killed, upLog, localExists, abortedIn, addOk>>

\* abortController.abort(): sets signal.aborted and runs the registered
\* listener, which exists only while the spawned worktree-add is running.
Abort ==
  /\ signal = "armed" /\ cpc \notin {"idle", "done"}
  /\ signal' = "aborted"
  /\ abortedIn' = cpc
  /\ IF cpc = "worktreeAdd"
     THEN /\ killed' = killed \cup {"worktree add"}
          /\ Finish(Fail(CANCELLED_ERROR))
     ELSE UNCHANGED <<killed, cpc, result>>
  /\ UNCHANGED <<fsVars, otherVars, scanVars, aggVars, repoOk, baseBranch, newBranchName, addWithB, cmds,
                 upLog, localExists, addOk>>

\* hasLocalBranch resolves: the check after it, then the branch taken
HasLocalBranchExit ==
  /\ cpc = "hasLocalBranch"
  /\ \E exists \in BOOLEAN :
       /\ localExists' = IF exists THEN "yes" ELSE "no"
       /\ IF IsAborted(signal)
          THEN Finish(Fail(CANCELLED_ERROR)) /\ UNCHANGED <<cmds, addWithB>>
          ELSE IF TakesExistingBranchPath(exists)
          THEN StartWorktreeAdd(FALSE, <<>>)
          ELSE /\ cmds' = Append(cmds, Cmd("rev-parse @{upstream}", FALSE, Trim(baseBranch), <<>>))
               /\ cpc' = "getUpstreamRef"
               /\ UNCHANGED <<result, addWithB>>
  /\ UNCHANGED <<fsVars, otherVars, scanVars, aggVars, signal, repoOk, baseBranch, newBranchName,
                 killed, upLog, abortedIn, addOk>>

\* getUpstreamRef resolves: startPoint, then runGitWorktreeAdd with -b
GetUpstreamRefExit ==
  /\ cpc = "getUpstreamRef"
  /\ \E out \in UpstreamOutcomes :
       LET ref == getUpstreamRef(out)
           startPoint == IF ref # <<>> THEN ref ELSE Trim(baseBranch)
       IN StartWorktreeAdd(TRUE, startPoint)
  /\ UNCHANGED <<fsVars, otherVars, scanVars, aggVars, signal, repoOk, baseBranch, newBranchName,
                 killed, upLog, localExists, abortedIn, addOk>>

\* proc.on("close"): the result of the add; after a successful add with -b,
\* setBranchUpstream starts `git branch --set-upstream-to`
WorktreeAddClose ==
  /\ cpc = "worktreeAdd"
  /\ \E code \in {0, 1}, chunks \in AddOutputs :
       LET res == CloseResult(signal, code, chunks)
       IN /\ addOk' = res.success
          /\ IF addWithB /\ res.success
             THEN /\ cmds' = Append(cmds, Cmd("branch --set-upstream-to", FALSE, SanitizeBranch(newBranchName), <<>>))
                  /\ cpc' = "setUpstream"
                  /\ UNCHANGED result
             ELSE Finish(res) /\ UNCHANGED cmds
  /\ UNCHANGED <<fsVars, otherVars, scanVars, aggVars, signal, repoOk, baseBranch, newBranchName, addWithB,
                 killed, upLog, localExists, abortedIn>>

\* proc.on("error"): the spawn failed
WorktreeAddError ==
  /\ cpc = "worktreeAdd"
  /\ Finish(Fail(<<"spawn git ENOENT">>))
  /\ UNCHANGED <<fsVars, otherVars, scanVars, aggVars, signal, repoOk, baseBranch, newBranchName, addWithB,
                 cmds, killed, upLog, localExists, abortedIn, addOk>>

\* setBranchUpstream: --set-upstream-to resolves or rejects
SetUpstreamExit ==
  /\ cpc = "setUpstream"
  /\ \E ok \in BOOLEAN :
       IF ok
       THEN /\ upLog' = "set" /\ Finish(ResultAfterUpstream(Ok, TRUE)) /\ UNCHANGED cmds
       ELSE /\ cmds' = Append(cmds, Cmd("config branch.remote", FALSE, SanitizeBranch(newBranchName), <<>>))
            /\ cpc' = "configRemote"
            /\ UNCHANGED <<upLog, result>>
  /\ UNCHANGED <<fsVars, otherVars, scanVars, aggVars, signal, repoOk, baseBranch, newBranchName, addWithB,
                 killed, localExists, abortedIn, addOk>>

\* setBranchUpstream, fallback: git config branch.<b>.remote resolves or rejects
ConfigRemoteExit ==
  /\ cpc = "configRemote"
  /\ \E ok \in BOOLEAN :
       IF ok
       THEN /\ cmds' = Append(cmds, Cmd("config branch.merge", FALSE, SanitizeBranch(newBranchName), <<>>))
            /\ cpc' = "configMerge"
            /\ UNCHANGED <<upLog, result>>
       ELSE /\ upLog' = "note" /\ Finish(ResultAfterUpstream(Ok, FALSE)) /\ UNCHANGED cmds
  /\ UNCHANGED <<fsVars, otherVars, scanVars, aggVars, signal, repoOk, baseBranch, newBranchName, addWithB,
                 killed, localExists, abortedIn, addOk>>

\* setBranchUpstream, fallback: git config branch.<b>.merge resolves or rejects
ConfigMergeExit ==
  /\ cpc = "configMerge"
  /\ \E ok \in BOOLEAN :
       /\ upLog' = IF ok THEN "set" ELSE "note"
       /\ Finish(ResultAfterUpstream(Ok, ok))
  /\ UNCHANGED <<fsVars, otherVars, scanVars, aggVars, signal, repoOk, baseBranch, newBranchName, addWithB,
                 cmds, killed, localExists, abortedIn, addOk>>

NextCreate ==
  \/ Call \/ Abort \/ HasLocalBranchExit \/ GetUpstreamRefExit \/ WorktreeAddClose
  \/ WorktreeAddError \/ SetUpstreamExit \/ ConfigRemoteExit \/ ConfigMergeExit

SpecCreate == InitCreate /\ [][NextCreate]_vars

(***************************************************************************)
(* Properties of the discovery engine.                                     *)
(***************************************************************************)
ItemPaths == {items[i].path : i \in 1..Len(items)}

Count(seq, x) == Cardinality({i \in 1..Len(seq) : seq[i] = x})

IsPrefix(a, d) == Len(a) <= Len(d) /\ SubSeq(d, 1, Len(a)) = a

\* The directories the walk from root looks at: those under the root, at most
\* MAX_REPO_SCAN_DEPTH levels down, none of whose ancestors (from the root on)
\* is a repository or fails to be read.
Visited(root) ==
  {d \in DOMAIN fs :
     /\ IsPrefix(root, d)
     /\ Len(d) - Len(root) <= MAX_REPO_SCAN_DEPTH
     /\ \A e \in DOMAIN fs :
          (IsPrefix(root, e) /\ IsPrefix(e, d) /\ e # d) => fs[e].t \in {"plain", "junk"}}

Mains == {m \in DOMAIN fs : fs[m].t = "main"}

\* The main checkout of repository m and its linked worktrees.
WorktreesOf(m) == {m} \cup {d \in DOMAIN fs : fs[d].t = "linked" /\ fs[d].main = m}

\* C1: the list built and returned by getAllWorktrees never holds two items
\* with the same absolute path, also when a repository is reached from two
\* roots or a worktree is listed by two discovered repositories.
C1_UniquePaths ==
  \A i, j \in 1..Len(items) : i # j => items[i].path # items[j].path

C1_Witness ==
  /\ apc = "done" /\ dups = {"repo", "root"} /\ Len(items) >= 2

\* C5: when the walk reaches at least one worktree directory (main checkout
\* or linked worktree) of a repository, getReposForRoot holds exactly one
\* record for it, whose path is the repository's main root; no repository
\* ever has two records.
C5_OneCanonicalRecord ==
  spc = "done" =>
    \A m \in Mains :
      /\ Count(scanned, m) <= 1
      /\ (WorktreesOf(m) \cap Visited(roots[1]) # {}) => Count(scanned, m) = 1

C5_Witness ==
  /\ spc = "done" /\ relLinks
  /\ \E m \in Mains, d \in DOMAIN fs :
       /\ fs[d].t = "linked" /\ fs[d].main = m
       /\ {m, d} \subseteq Visited(roots[1])
       /\ scanned = <<m>>

\* A repository `inner` (a main checkout) lying in the working directory of a
\* repository `outer` that the walk reaches.
Nested(outer, inner) ==
  /\ outer \in Visited(roots[1]) /\ fs[outer].t \in {"main", "linked"}
  /\ inner \in Mains /\ IsPrefix(outer, inner) /\ inner # outer

CanonMain(d) == IF fs[d].t = "main" THEN d ELSE fs[d].main

\* C6 as stated: a repository nested in the working directory of another one
\* is recorded exactly once by the scan.
C6_InnerRecordedOnce ==
  spc = "done" =>
    \A outer, inner \in DOMAIN fs : Nested(outer, inner) => Count(scanned, inner) = 1

\* C6 amended: the scan records the outer repository once and stops there; the
\* inner repository gets no record from its own directory: it is recorded
\* (once) only when one of its linked worktrees is reached elsewhere in the
\* walk, and the outer repository's record is never the inner one.
C6_InnerNotScanned ==
  spc = "done" =>
    \A outer, inner \in DOMAIN fs :
      Nested(outer, inner) =>
        /\ Count(scanned, CanonMain(outer)) = 1
        /\ inner \notin Visited(roots[1])
        /\ Count(scanned, inner) =
             (IF WorktreesOf(inner) \cap Visited(roots[1]) # {} THEN 1 ELSE 0)

C6_Witness ==
  /\ spc = "done"
  /\ \E outer, inner \in DOMAIN fs :
       /\ Nested(outer, inner)
       /\ Count(scanned, inner) = 0
       /\ Count(scanned, CanonMain(outer)) = 1

\* C7: an item has isMain = TRUE exactly when its absolute path is the
\* absolute-resolved path of the first entry of the listing it came from.
C7_IsMainIffFirst ==
  \A i \in 1..Len(items) :
    items[i].isMain <=> [path |-> items[i].path, first |-> items[i].path] \in firstAbs

\* C10: getAllWorktrees never raises, and what it returns holds every worktree
\* of every listing that succeeded, whatever listings or traversals failed.
C10_FailuresAbsorbed ==
  /\ ~raised
  /\ apc = "done" => ItemPaths = listedOk

C10_Witness ==
  /\ apc = "done" /\ failedOnce /\ fs[DirA].t = "denied" /\ Len(items) >= 1
(***************************************************************************)
(* Properties of createWorktreeFromBase.                                   *)
(***************************************************************************)
Started(c) == \E i \in 1..Len(cmds) : cmds[i].cmd = c

UpstreamCmds == {"branch --set-upstream-to", "config branch.remote", "config branch.merge"}

Subprocesses ==
  {"hasLocalBranch", "getUpstreamRef", "worktreeAdd", "setUpstream", "configRemote", "configMerge"}

\* the subprocess that runs while cpc is at position p
CmdAt(p) ==
  CASE p = "hasLocalBranch" -> "rev-parse --verify"
    [] p = "getUpstreamRef" -> "rev-parse @{upstream}"
    [] p = "worktreeAdd" -> "worktree add"
    [] p = "setUpstream" -> "branch --set-upstream-to"
    [] p = "configRemote" -> "config branch.remote"
    [] p = "configMerge" -> "config branch.merge"
    [] OTHER -> "none"

PreconditionsHold ==
  repoOk /\ Trim(baseBranch) # <<>> /\ SanitizeBranch(newBranchName) # <<>>

\* C2: once the local-branch check has answered that the branch exists, no
\* worktree-add with -b and no upstream-configuration command is ever started,
\* on any path (cancellation, subprocess failure, spawn error).
C2_ExistingBranchNoCreate ==
  localExists = "yes" =>
    \A i \in 1..Len(cmds) : ~cmds[i].b /\ cmds[i].cmd \notin UpstreamCmds

C2_Witness ==
  /\ localExists = "yes" /\ cpc = "done" /\ result.success
  /\ Started("worktree add")

\* C3 as stated: with the signal aborted before the call has started any
\* subprocess, the call returns the Cancelled result and starts no subprocess.
C3_CancelledBeforeStart ==
  (abortedIn = "before" /\ cpc = "done") =>
    (result = Fail(CANCELLED_ERROR) /\ cmds = <<>>)

\* C3 amended: with the signal aborted before the call, no subprocess is ever
\* started, and the call returns the Cancelled result when its preconditions
\* hold (the repository is valid, the base branch and the sanitized name are
\* not blank); otherwise it returns the precondition's error.
C3_CancelledBeforeStartValid ==
  abortedIn = "before" =>
    /\ cmds = <<>>
    /\ cpc \in {"idle", "done"}
    /\ (cpc = "done" /\ PreconditionsHold) => result = Fail(CANCELLED_ERROR)
    /\ (cpc = "done" /\ ~PreconditionsHold) =>
         (~result.success /\ result.error # CANCELLED_ERROR)

C3_Witness ==
  /\ abortedIn = "before" /\ cpc = "done" /\ PreconditionsHold
  /\ result = Fail(CANCELLED_ERROR) /\ cmds = <<>>

\* C4: when the signal is aborted while a subprocess of the call is running,
\* that subprocess is terminated and the call resolves with the Cancelled
\* result, never as success or as a generic failure.
C4_AbortMidSubprocess ==
  abortedIn \in Subprocesses =>
    /\ CmdAt(abortedIn) \in killed
    /\ cpc = "done" => result = Fail(CANCELLED_ERROR)

\* C8: a result whose error is the Cancelled sentinel is returned only when
\* the signal was aborted.
C8_CancelledOnlyByAbort ==
  (result.set /\ result.error = CANCELLED_ERROR) => signal = "aborted"

\* C9: after a worktree-add with -b that succeeded, the call returns success
\* however upstream configuration ended.
C9_UpstreamNeverFatal ==
  (cpc = "done" /\ addOk /\ addWithB) => (result = Ok /\ upLog \in {"set", "note"})

C9_Witness ==
  /\ cpc = "done" /\ addOk /\ addWithB /\ upLog = "note" /\ result.success
  /\ Started("config branch.merge")

(***************************************************************************)
(* The final sort of getAllWorktrees on its own (specification SpecSort):  *)
(* the inputs are the arrays the loop can have built, that is items with   *)
(* pairwise different paths, with and without a modification time.         *)
(***************************************************************************)
PathA == <<"/", "a">>
PathB == <<"/", "b">>
PathC == <<"/", "c">>
PathD == <<"/", "d">>
SortPaths == {PathA, PathB, PathC, PathD}

Ms(n) == [has |-> TRUE, ms |-> n]
Stamps == {NoTime, Ms(0), Ms(100), Ms(300)}

MkItem(p, t) ==
  [path |-> p, branch |-> Detached, repoName |-> <<"r">>, isMain |-> FALSE, repoRoot |-> DirR,
   lastModifiedMs |-> t]

DistinctPathSeqs ==
  {ps \in BoundedSeqs(SortPaths, MaxItems) : \A i, j \in 1..Len(ps) : ps[i] = ps[j] => i = j}

InitSort ==
  /\ fs = MkFs(K("plain", NoPath), K("main", NoPath), K("plain", NoPath), K("main", NoPath))
  /\ relLinks = FALSE /\ revOrder = FALSE /\ roots = <<>>
  /\ ScanIdle /\ AggIdle /\ CreateIdle
  /\ sortPc = "ready"
  /\ \E ps \in DistinctPathSeqs :
       \E ts \in [1..Len(ps) -> Stamps] :
         sortInput = [i \in 1..Len(ps) |-> MkItem(ps[i], ts[i])]
  /\ sortOutput = <<>>
  /\ ExpandIdle /\ FormIdle /\ RemoveIdle /\ WalkIdle

\* return items.sort((a, b) => ...)
SortReturn ==
  /\ sortPc = "ready"
  /\ sortOutput' = SortItems(sortInput)
  /\ sortPc' = "done"
  /\ UNCHANGED <<fsVars, scanVars, aggVars, createVars, expandVars, formVars, removeVars, walkVars, sortInput>>

NextSort == SortReturn

SpecSort == InitSort /\ [][NextSort]_vars

(***************************************************************************)
(* Properties of the returned order.                                       *)
(***************************************************************************)
PathsOf(its) == [i \in 1..Len(its) |-> its[i].path]
StampsOf(its) == [i \in 1..Len(its) |-> its[i].lastModifiedMs]
Letter(p) == p[2]
LetterRank == ("a" :> 1) @@ ("b" :> 2) @@ ("c" :> 3) @@ ("d" :> 4)
TimeOrZero(it) == IF it.lastModifiedMs = NoTime THEN 0 ELSE it.lastModifiedMs.ms

\* C11: the returned list holds the same items, ordered by modification time
\* descending with a missing time counted as 0, and by ascending path where the
\* times are equal.
C11_SortedByTimeThenPath ==
  sortPc = "done" =>
    /\ Len(sortOutput) = Len(sortInput)
    /\ {sortOutput[i] : i \in 1..Len(sortOutput)} = {sortInput[i] : i \in 1..Len(sortInput)}
    /\ \A i, j \in 1..Len(sortOutput) :
         i < j =>
           \/ TimeOrZero(sortOutput[i]) > TimeOrZero(sortOutput[j])
           \/ /\ TimeOrZero(sortOutput[i]) = TimeOrZero(sortOutput[j])
              /\ LetterRank[Letter(sortOutput[i].path)] < LetterRank[Letter(sortOutput[j].path)]

\* times [100, 300, 300, none] for the paths [a, b, c, d] come back as b, c, a, d
C11_Witness ==
  /\ sortPc = "done"
  /\ PathsOf(sortInput) = <<PathA, PathB, PathC, PathD>>
  /\ StampsOf(sortInput) = <<Ms(100), Ms(300), Ms(300), NoTime>>
  /\ PathsOf(sortOutput) = <<PathB, PathC, PathA, PathD>>

(***************************************************************************)
(* Properties of the precondition checks of createWorktreeFromBase.        *)
(***************************************************************************)
Blank(t) == \A i \in 1..Len(t) : t[i] \in {" ", "\n"}
Failed(e) == result = [set |-> TRUE, success |-> FALSE, error |-> e]
PreconditionErrors ==
  {<<"Repository not found">>, <<"Base branch is required">>, <<"Worktree name is required">>}

\* C12: an invalid repository gives "Repository not found"; otherwise a blank
\* base branch gives "Base branch is required"; otherwise a name that is blank
\* after trimming gives "Worktree name is required"; each of them at once,
\* with no subprocess started, and none of them in any other case.
C12_PreconditionOrder ==
  cpc # "idle" =>
    /\ ~repoOk => Failed(<<"Repository not found">>) /\ cmds = <<>>
    /\ repoOk /\ Blank(baseBranch) => Failed(<<"Base branch is required">>) /\ cmds = <<>>
    /\ repoOk /\ ~Blank(baseBranch) /\ Blank(newBranchName)
         => Failed(<<"Worktree name is required">>) /\ cmds = <<>>
    /\ repoOk /\ ~Blank(baseBranch) /\ ~Blank(newBranchName)
         => ~(result.set /\ result.error \in PreconditionErrors)

\* base branch and name both blank in a valid repository: the base branch is reported
C12_Witness ==
  /\ cpc = "done" /\ repoOk
  /\ baseBranch = <<" ">> /\ newBranchName = <<" ", "\n">>
  /\ Failed(<<"Base branch is required">>) /\ cmds = <<>>

(***************************************************************************)
(* getReposForRoot step by step (specification SpecDepth): one action per  *)
(* entry into collectReposRecursive and per turn of its readdir loop, the  *)
(* active calls kept in callStack.  The inputs are the layouts of SpecScan *)
(* and deep trees: below DirR a chain of kd directories named d and a      *)
(* chain of ke directories named e, each ending in a repository; the root  *)
(* of a deep tree is DirR or the first d directory.                        *)
(***************************************************************************)
DeepFs(kd, ke, te) ==
  [p \in {Branch("d", k) : k \in 0..kd} \cup {Branch("e", k) : k \in 1..ke} \cup {DirO} |->
     IF p = Branch("d", kd) \/ p = DirO THEN K("main", NoPath)
     ELSE IF p = Branch("e", ke) THEN K(te, IF te = "linked" THEN DirO ELSE NoPath)
     ELSE K("plain", NoPath)]

IsDeep == Branch("d", 1) \in DOMAIN fs

InitDepth ==
  /\ \/ /\ \E kd \in MinChain..MaxChain, ke \in MinChain..MaxChain, te \in {"main", "linked"} :
             fs = DeepFs(kd, ke, te)
        /\ relLinks = FALSE
        /\ \E j \in 0..1 : roots = <<Branch("d", j)>>
     \/ /\ \E kr \in ScanKindsR, ka \in ScanKindsA, kn \in ScanKindsN, kb \in ScanKindsB :
             /\ WellFormed(MkFs(kr, ka, kn, kb))
             /\ fs = MkFs(kr, ka, kn, kb)
        /\ relLinks \in BOOLEAN
        /\ \E r \in ScanRootCands : roots = <<r>>
  /\ revOrder \in BOOLEAN
  /\ spc = "ready" /\ scanned = <<>>
  /\ AggIdle
  /\ CreateIdle
  /\ OtherIdle

Frame(dirPath, depth) == [dirPath |-> dirPath, depth |-> depth, at |-> "enter", entries |-> <<>>]
Top == callStack[Len(callStack)]
Pop == SubSeq(callStack, 1, Len(callStack) - 1)

WalkOther == <<fsVars, aggVars, createVars, sortVars, expandVars, formVars, removeVars>>

\* getReposForRoot up to its call of collectReposRecursive(path.resolve(rootPath), ..., 0)
WalkStart ==
  /\ spc = "ready"
  /\ IF ~IsDirectory(roots[1])
     THEN spc' = "done" /\ scanned' = <<>> /\ UNCHANGED callStack
     ELSE spc' = "walking" /\ callStack' = <<Frame(Resolve(roots[1], <<>>), 0)>> /\ UNCHANGED scanned
  /\ walkSt' = NoWalk
  /\ UNCHANGED WalkOther

\* collectReposRecursive from its entry to its return or to the readdir loop
WalkEnter ==
  /\ spc = "walking" /\ callStack # <<>> /\ Top.at = "enter"
  /\ LET dirPath == Top.dirPath IN
       IF DepthExceeded(Top.depth) THEN callStack' = Pop /\ UNCHANGED walkSt
       ELSE IF ~IsDirectory(dirPath) THEN callStack' = Pop /\ UNCHANGED walkSt
       ELSE IF isGitRepo(dirPath)
            THEN /\ callStack' = Pop
                 /\ IF GitEntryIsFile(dirPath)
                    THEN LET mainPath == getMainRepoPath(dirPath)
                         IN walkSt' = IF mainPath # NoPath THEN Record(walkSt, mainPath) ELSE walkSt
                    ELSE walkSt' = Record(walkSt, Resolve(dirPath, <<>>))
       ELSE IF KindOf(dirPath) = "denied" THEN callStack' = Pop /\ UNCHANGED walkSt
       ELSE /\ callStack' = [callStack EXCEPT ![Len(callStack)] =
                               [@ EXCEPT !.at = "loop", !.entries = DirEntries(dirPath)]]
            /\ UNCHANGED walkSt
  /\ UNCHANGED <<WalkOther, scanVars>>

\* one turn of `for (const ent of entries)`: the recursive call on the next
\* entry with depth + 1, or the end of the loop
WalkLoop ==
  /\ spc = "walking" /\ callStack # <<>> /\ Top.at = "loop"
  /\ IF Top.entries = <<>> THEN callStack' = Pop
     ELSE callStack' = Append([callStack EXCEPT ![Len(callStack)] = [@ EXCEPT !.entries = Tail(@)]],
                              Frame(Head(Top.entries), Top.depth + 1))
  /\ UNCHANGED <<WalkOther, scanVars, walkSt>>

\* return results
WalkReturn ==
  /\ spc = "walking" /\ callStack = <<>>
  /\ scanned' = walkSt.results
  /\ spc' = "done"
  /\ UNCHANGED <<WalkOther, walkVars>>

NextDepth == WalkStart \/ WalkEnter \/ WalkLoop \/ WalkReturn

SpecDepth == InitDepth /\ [][NextDepth]_vars

(***************************************************************************)
(* Properties of the depth limit.                                          *)
(***************************************************************************)
LevelOf(x) == Cardinality({k \in 1..MaxChain : Branch(x, k) \in DOMAIN fs})
RootLevel == Len(roots[1]) - Len(DirR)
ScannedSet == {scanned[i] : i \in 1..Len(scanned)}
MainAt(p) == IF fs[p].t = "linked" THEN fs[p].main ELSE p

\* C13: a repository is discovered when it lies at most 15 directory levels
\* below the configured root (the root being level 0), the 15th included, and
\* is not discovered when it lies deeper.
C13_DepthLimit ==
  IsDeep /\ spc = "done" =>
    /\ (Branch("d", LevelOf("d")) \in ScannedSet) <=> (LevelOf("d") - RootLevel <= 15)
    /\ RootLevel = 0 =>
         ((MainAt(Branch("e", LevelOf("e"))) \in ScannedSet) <=> (LevelOf("e") <= 15))

\* On the layouts of SpecScan the step-by-step scan returns what the
\* recursive operator computes.
StepsAgreeWithRecursion ==
  ~IsDeep /\ spc = "done" => scanned = getReposForRoot(roots[1])

\* one repository exactly 15 levels below the root and one 16 levels below it:
\* the scan returns the first and not the second
C13_Witness ==
  /\ IsDeep /\ spc = "done" /\ RootLevel = 0
  /\ LevelOf("d") = 15 /\ LevelOf("e") = 16
  /\ scanned = <<Branch("d", 15)>>

(***************************************************************************)
(* preferences: expandRoots (specification SpecExpand).  The roots string  *)
(* is a text over a blank, the newline, the tilde and two path words.      *)
(***************************************************************************)
Home == "<home>"
PathWords == {"/x", "/y"}
TextAtoms == {" ", "\n", "~"} \cup PathWords

\* rootsStr.split("\n")
RECURSIVE SplitLines(_)
SplitLines(t) ==
  IF \A i \in 1..Len(t) : t[i] # "\n" THEN <<t>>
  ELSE LET i == CHOOSE k \in 1..Len(t) : t[k] = "\n" /\ \A h \in 1..(k - 1) : t[h] # "\n"
       IN <<SubSeq(t, 1, i - 1)>> \o SplitLines(SubSeq(t, i + 1, Len(t)))

\* path.join(home, rest): one separator between the two parts
JoinHome(rest) ==
  IF rest = <<>> THEN <<Home>>
  ELSE IF Head(rest) \in PathWords THEN <<Home>> \o rest
  ELSE <<Home, "/">> \o rest

\* r.startsWith("~") ? path.join(home, r.slice(1)) : r
ExpandHome(r) == IF r # <<>> /\ Head(r) = "~" THEN JoinHome(Tail(r)) ELSE r

expandRoots(str) ==
  IF Trim(str) = <<>> THEN <<>>
  ELSE LET lines == SplitLines(str)
           trimmed == [i \in 1..Len(lines) |-> Trim(lines[i])]
           kept == SelectSeq(trimmed, LAMBDA r : r # <<>>)
       IN [i \in 1..Len(kept) |-> ExpandHome(kept[i])]

\* "~/x", an empty line, " /y " and a final newline
ExampleRoots == <<"~", "/x", "\n", "\n", " ", "/y", " ", "\n">>

InitExpand ==
  /\ fs = MkFs(K("plain", NoPath), K("main", NoPath), K("plain", NoPath), K("main", NoPath))
  /\ relLinks = FALSE /\ revOrder = FALSE /\ roots = <<>>
  /\ ScanIdle /\ AggIdle /\ CreateIdle /\ SortIdle /\ FormIdle /\ RemoveIdle /\ WalkIdle
  /\ epc = "ready"
  /\ rootsStr \in BoundedSeqs(TextAtoms, MaxText) \cup {ExampleRoots}
  /\ expanded = <<>>

ExpandCall ==
  /\ epc = "ready"
  /\ expanded' = expandRoots(rootsStr)
  /\ epc' = "done"
  /\ UNCHANGED <<fsVars, scanVars, aggVars, createVars, sortVars, formVars, removeVars, walkVars, rootsStr>>

NextExpand == ExpandCall

SpecExpand == InitExpand /\ [][NextExpand]_vars

(***************************************************************************)
(* Properties of expandRoots.                                              *)
(***************************************************************************)
InputLines == SplitLines(rootsStr)

\* element i of the result is line f[i] of the input, trimmed and not empty,
\* with a leading ~ replaced by the home directory; f keeps the input order
FromLinesInOrder(f) ==
  /\ \A i, j \in DOMAIN f : i < j => f[i] < f[j]
  /\ \A i \in DOMAIN f :
       /\ Trim(InputLines[f[i]]) # <<>>
       /\ expanded[i] = ExpandHome(Trim(InputLines[f[i]]))

\* C14: every element of the result is a trimmed, non-empty input line with a
\* leading ~ replaced by the home directory, in input order, and no path
\* appears twice in the result.
C14_ExpandedDeduplicated ==
  epc = "done" =>
    /\ \E f \in [1..Len(expanded) -> 1..Len(InputLines)] : FromLinesInOrder(f)
    /\ \A i, j \in 1..Len(expanded) : expanded[i] = expanded[j] => i = j

\* the part of C14 that holds: the result is the sequence of all trimmed,
\* non-empty lines, each with a leading ~ replaced (duplicates included)
ExpandedIsEveryLine ==
  epc = "done" =>
    \E f \in [1..Len(expanded) -> 1..Len(InputLines)] :
      /\ FromLinesInOrder(f)
      /\ \A k \in 1..Len(InputLines) :
           Trim(InputLines[k]) # <<>> => \E i \in DOMAIN f : f[i] = k

\* the example input gives <home>/x and /y
ExpandExample ==
  /\ epc = "done"
  /\ rootsStr = ExampleRoots
  /\ expanded = << <<Home, "/x">>, <<"/y">> >>

(***************************************************************************)
(* Properties of the cancellation checkpoints.                             *)
(***************************************************************************)
LastCmd == cmds[Len(cmds)].cmd

\* C15: once the signal has been aborted the call starts no further
\* subprocess: the last subprocess ever started is the one that was running
\* when the signal was aborted (none when it was aborted before the call).
C15_NoSubprocessAfterAbort ==
  /\ abortedIn = "before" => cmds = <<>>
  /\ abortedIn \in Subprocesses => cmds # <<>> /\ LastCmd = CmdAt(abortedIn)

\* the part of C15 that holds: after an abort before or during the branch
\* check, the upstream lookup or the worktree-add, nothing further is started
CheckpointsUpToAdd ==
  /\ abortedIn = "before" => cmds = <<>>
  /\ abortedIn \in {"hasLocalBranch", "getUpstreamRef", "worktreeAdd"}
       => cmds # <<>> /\ LastCmd = CmdAt(abortedIn)

\* a cancel during the upstream lookup, observed after the call has resolved
CancelDuringLookup ==
  cpc = "done" /\ abortedIn = "getUpstreamRef" /\ ~Started("worktree add")

(***************************************************************************)
(* The Create Worktree form (specification SpecForm): handleSubmit and the *)
(* Cancel action.  Each action is the code that runs between two awaits;   *)
(* invocation h of handleSubmit owns the AbortController h.  The call of   *)
(* createWorktreeFromBase is in flight while hpc[h] = "creating"; what it  *)
(* does in between is the subject of SpecCreate.                           *)
(***************************************************************************)
InitForm ==
  /\ fs = MkFs(K("plain", NoPath), K("main", NoPath), K("plain", NoPath), K("main", NoPath))
  /\ relLinks = FALSE /\ revOrder = FALSE /\ roots = <<>>
  /\ ScanIdle /\ AggIdle /\ CreateIdle /\ SortIdle /\ ExpandIdle /\ RemoveIdle /\ WalkIdle
  /\ FormIdle

FormOther == <<fsVars, scanVars, aggVars, createVars, sortVars, expandVars, removeVars, walkVars>>

\* React commits the state: the panel shows Cancel while isSubmitting, else the submit action
Render ==
  /\ panel # (IF isSubmitting THEN "cancel" ELSE "submit")
  /\ panel' = IF isSubmitting THEN "cancel" ELSE "submit"
  /\ UNCHANGED <<FormOther, isSubmitting, createSuccess, abortControllerRef, hpc, abortedCtl>>

\* onSubmit: the validations with their early returns, then await showToast(Animated)
Submit ==
  /\ panel = "submit"
  /\ Len(hpc) < MaxSubmits
  /\ \E valid \in BOOLEAN : hpc' = Append(hpc, IF valid THEN "toast" ELSE "done")
  /\ UNCHANGED <<FormOther, isSubmitting, createSuccess, abortControllerRef, panel, abortedCtl>>

\* showToast resolved: setIsSubmitting(true), a new AbortController into the ref,
\* then the call of createWorktreeFromBase with its signal
ToastShown(h) ==
  /\ hpc[h] = "toast"
  /\ isSubmitting' = TRUE
  /\ createSuccess' = FALSE
  /\ abortControllerRef' = h
  /\ hpc' = [hpc EXCEPT ![h] = "creating"]
  /\ UNCHANGED <<FormOther, panel, abortedCtl>>

\* finally { setIsSubmitting(false); abortControllerRef.current = null; }
Finally(h) ==
  /\ isSubmitting' = FALSE
  /\ abortControllerRef' = 0
  /\ hpc' = [hpc EXCEPT ![h] = "done"]

\* createWorktreeFromBase resolved; Cancelled only for an aborted signal
CreateResolved(h) ==
  /\ hpc[h] = "creating"
  /\ \E r \in {"success", "failure"} \cup (IF h \in abortedCtl THEN {"cancelled"} ELSE {}) :
       IF r = "success"
       THEN /\ createSuccess' = TRUE
            /\ hpc' = [hpc EXCEPT ![h] = "delay"]
            /\ UNCHANGED <<isSubmitting, abortControllerRef>>
       ELSE Finally(h) /\ UNCHANGED createSuccess
  /\ UNCHANGED <<FormOther, panel, abortedCtl>>

\* await new Promise((r) => setTimeout(r, 600)) resolved
DelayDone(h) ==
  /\ hpc[h] = "delay"
  /\ hpc' = [hpc EXCEPT ![h] = "hud"]
  /\ UNCHANGED <<FormOther, isSubmitting, createSuccess, abortControllerRef, panel, abortedCtl>>

\* await showHUD(...) resolved, then the finally block
HudDone(h) ==
  /\ hpc[h] = "hud"
  /\ Finally(h)
  /\ UNCHANGED <<FormOther, createSuccess, panel, abortedCtl>>

\* the Cancel action: abortControllerRef.current?.abort()
Cancel ==
  /\ panel = "cancel"
  /\ abortedCtl' = IF abortControllerRef # 0 THEN abortedCtl \cup {abortControllerRef} ELSE abortedCtl
  /\ UNCHANGED <<FormOther, isSubmitting, createSuccess, abortControllerRef, panel, hpc>>

NextForm ==
  \/ Render
  \/ Submit
  \/ Cancel
  \/ \E h \in 1..Len(hpc) : ToastShown(h)
  \/ \E h \in 1..Len(hpc) : CreateResolved(h)
  \/ \E h \in 1..Len(hpc) : DelayDone(h)
  \/ \E h \in 1..Len(hpc) : HudDone(h)

SpecForm == InitForm /\ [][NextForm]_vars

(***************************************************************************)
(* Properties of the form.                                                 *)
(***************************************************************************)
InFlight == {h \in 1..Len(hpc) : hpc[h] = "creating"}

\* C16: at most one createWorktreeFromBase call is in flight at a time, and
\* while one is in flight and the Cancel action is offered, Cancel aborts the
\* signal that was passed to that call.
C16_OneCreateInFlight ==
  /\ Cardinality(InFlight) <= 1
  /\ \A h \in InFlight : panel = "cancel" => abortControllerRef = h

(***************************************************************************)
(* The Search Worktrees list (specification SpecRemove): the list shows    *)
(* the items getAllWorktrees returned, and the Remove Worktree action of   *)
(* an item calls removeWorktree(wt.repoRoot, wt.path) once confirmed.      *)
(***************************************************************************)
\* {!wt.isMain && <Action title="Remove Worktree" ... />}
OffersRemove(wt) == ~wt.isMain

\* onAction of Remove Worktree, confirmed in the alert
RemoveWorktreeAction ==
  /\ apc = "done"
  /\ \E i \in 1..Len(items) :
       /\ OffersRemove(items[i])
       /\ [repoRoot |-> items[i].repoRoot, path |-> items[i].path] \notin removeCalls
       /\ removeCalls' = removeCalls \cup {[repoRoot |-> items[i].repoRoot, path |-> items[i].path]}
  /\ UNCHANGED <<fsVars, scanVars, aggVars, createVars, sortVars, expandVars, formVars, walkVars>>

NextRemove ==
  \/ AggScanRoot
  \/ AggListRepo
  \/ AggNextRoot
  \/ AggReturn
  \/ RemoveWorktreeAction

SpecRemove == Init /\ [][NextRemove]_vars

(***************************************************************************)
(* Properties of the remove action.                                        *)
(***************************************************************************)
\* C17: the path passed to removeWorktree is never the primary checkout of
\* its repository, that is the first entry of the listing the item came from.
C17_NeverRemovesMain ==
  \A c \in removeCalls : [path |-> c.path, first |-> c.path] \notin firstAbs

\* the part of C17 that holds: removeWorktree is only called for an item
\* whose isMain flag is FALSE
RemovesOnlyUnflagged ==
  \A c \in removeCalls :
    \E i \in 1..Len(items) :
      items[i].path = c.path /\ items[i].repoRoot = c.repoRoot /\ ~items[i].isMain
====
